---- MODULE Spec2Model ----
(***************************************************************************)
(* Water-intake tracker: the consumption estimation functions of           *)
(* src/routes.ts (calculateInitialWaterConsumption,                         *)
(* calculateDailyWaterConsumption), the storage layer of                   *)
(* src/unnamed/part_002 (DatabaseStorage) over the tables of               *)
(* src/unnamed/part_000, and the request handlers of src/routes.ts, one    *)
(* step per await.                                                         *)
(*                                                                         *)
(* Gallon amounts inside the estimators are fractions; they are kept       *)
(* exactly, as integers counting 1/30000 of a gallon, which represents     *)
(* every coefficient of the source (k/30, 0.623/30, 0.34, 1.8, 0.165, ...)  *)
(* without loss.  The source computes in IEEE doubles; on the inputs       *)
(* enumerated here the doubles round to the same integers.                 *)
(***************************************************************************)
EXTENDS Integers, Sequences, FiniteSets, TLC

VARIABLES
    initialResponse,      \* estimator input: the profile passed to a call
    dailyResponse,        \* estimator input: the activity passed to a call
    called,               \* which estimator was called last ("none" before)
    returned,             \* the breakdown that call returned
    users,                \* table users: waterGoal and initialQuizCompleted per user
    initialQuizResponses, \* table initial_quiz_responses (rows in insert order)
    dailyQuizResponses,   \* table daily_quiz_responses
    waterConsumption,     \* table water_consumption
    today,                \* the current calendar day
    requests,             \* the requests in flight, one per slot
    lastResponse,         \* the response most recently sent
    served                \* number of requests accepted so far

calcVars == <<initialResponse, dailyResponse, called, returned>>
tables == <<users, initialQuizResponses, dailyQuizResponses, waterConsumption>>
httpVars == <<users, initialQuizResponses, dailyQuizResponses, waterConsumption,
              today, requests, lastResponse, served>>
vars == <<initialResponse, dailyResponse, called, returned,
          users, initialQuizResponses, dailyQuizResponses, waterConsumption,
          today, requests, lastResponse, served>>

-----------------------------------------------------------------------------
(* Fixed-point amounts *)

Unit == 30 * 1000                 \* one gallon

Gallons(n) == n * Unit

\* k * n / 30 gallons
PerMonth(k, n) == k * n * (Unit \div 30)

\* (num / den) * n gallons, den a divisor of Unit
Rate(num, den, n) == num * n * (Unit \div den)

Abs(x) == IF x < 0 THEN -x ELSE x

\* Math.round: the nearest integer, a tie going up (toward +infinity)
MathRound(x) == (2 * x + Unit) \div (2 * Unit)

-----------------------------------------------------------------------------
(* JavaScript objects: a record whose absent keys read as undefined *)

Has(r, f) == f \in DOMAIN r

\* a numeric field; undefined and 0 are both falsy and contribute nothing
Num(r, f) == IF Has(r, f) THEN r[f] ELSE 0

Str(r, f) == IF Has(r, f) THEN r[f] ELSE "undefined"

Flag(r, f) == IF Has(r, f) THEN r[f] ELSE FALSE

\* response.appliances || []
AppliancesOf(r) == IF Has(r, "appliances") THEN r["appliances"] ELSE {}

\* {...a, ...b}
Spread(a, b) ==
    [k \in (DOMAIN a) \cup (DOMAIN b) |-> IF k \in DOMAIN b THEN b[k] ELSE a[k]]

Categories ==
    {"showerGallons", "toiletGallons", "kitchenGallons", "dishwasherGallons",
     "laundryGallons", "gardenGallons", "poolGallons", "carWashGallons",
     "energyGallons", "shoppingGallons", "otherGallons"}

BreakdownFields == Categories \cup {"totalGallons"}

SumOfCategories(c) ==
    c.showerGallons + c.toiletGallons + c.kitchenGallons + c.dishwasherGallons +
    c.laundryGallons + c.gardenGallons + c.poolGallons + c.carWashGallons +
    c.energyGallons + c.shoppingGallons + c.otherGallons

-----------------------------------------------------------------------------
(* calculateInitialWaterConsumption, src/routes.ts 462-562 *)

\* steps 1-2: low-flow showerhead credit and baths
InitialShowerCreditPerMonth(response) ==
    (IF "showerhead" \in AppliancesOf(response) THEN -PerMonth(63, 1) ELSE 0)
    + (IF Num(response, "bathsPerMonth") # 0
       THEN PerMonth(80, response["bathsPerMonth"]) ELSE 0)

InitialShower(response) ==
    (IF "showerhead" \in AppliancesOf(response) THEN -Gallons(63) ELSE 0)
    + (IF Num(response, "bathsPerMonth") # 0
       THEN PerMonth(80, response["bathsPerMonth"]) ELSE 0)

\* step 3
InitialDishwasher(response) ==
    IF Str(response, "dishwasherType") = "yes_efficient"
       /\ Num(response, "dishwasherFrequency") # 0
    THEN PerMonth(4, response["dishwasherFrequency"])
    ELSE IF Str(response, "dishwasherType") = "yes_not_efficient"
            /\ Num(response, "dishwasherFrequency") # 0
    THEN PerMonth(10, response["dishwasherFrequency"])
    ELSE 0

\* step 4
InitialLaundry(response) ==
    IF Str(response, "laundryType") = "yes_efficient"
       /\ Num(response, "laundryFrequency") # 0
    THEN PerMonth(14, response["laundryFrequency"])
    ELSE IF Str(response, "laundryType") = "yes_not_efficient"
            /\ Num(response, "laundryFrequency") # 0
    THEN PerMonth(20, response["laundryFrequency"])
    ELSE 0

\* step 5: 0.623 * area * frequency / 30
InitialGardenWithoutFlag(response) ==
    IF Num(response, "gardenArea") # 0 /\ Num(response, "gardenFrequency") # 0
    THEN 623 * response["gardenArea"] * response["gardenFrequency"]
         * (Unit \div (30 * 1000))
    ELSE 0

InitialGarden(response) ==
    IF Flag(response, "hasGarden") /\ Num(response, "gardenArea") # 0
       /\ Num(response, "gardenFrequency") # 0
    THEN 623 * response["gardenArea"] * response["gardenFrequency"]
         * (Unit \div (30 * 1000))
    ELSE 0

\* step 6
InitialPoolPerMonth(response) ==
    IF Flag(response, "hasPool") THEN PerMonth(65, 1) ELSE 0

InitialPool(response) == IF Flag(response, "hasPool") THEN Gallons(65) ELSE 0

\* step 7
InitialCarWashWhateverMethod(response) ==
    IF Str(response, "carWashMethod") = "drive_through"
       /\ Num(response, "carWashFrequency") # 0
    THEN PerMonth(35, response["carWashFrequency"])
    ELSE IF Str(response, "carWashMethod") = "self_service"
            /\ Num(response, "carWashFrequency") # 0
    THEN PerMonth(17, response["carWashFrequency"])
    ELSE IF Num(response, "carWashFrequency") # 0
    THEN PerMonth(100, response["carWashFrequency"])
    ELSE 0

InitialCarWash(response) ==
    IF Str(response, "carWashMethod") = "garden_hose"
       /\ Num(response, "carWashFrequency") # 0
    THEN PerMonth(100, response["carWashFrequency"])
    ELSE IF Str(response, "carWashMethod") = "drive_through"
            /\ Num(response, "carWashFrequency") # 0
    THEN PerMonth(35, response["carWashFrequency"])
    ELSE IF Str(response, "carWashMethod") = "self_service"
            /\ Num(response, "carWashFrequency") # 0
    THEN PerMonth(17, response["carWashFrequency"])
    ELSE 0

\* step 8: 0.34 * utilityPercentage
InitialEnergy(response) ==
    IF Num(response, "utilityPercentage") # 0
    THEN Rate(34, 100, response["utilityPercentage"]) ELSE 0

\* step 9
InitialShoppingPerMonth(response) ==
    IF Str(response, "shoppingHabits") = "basics" THEN PerMonth(291, 1)
    ELSE IF Str(response, "shoppingHabits") = "moderate" THEN PerMonth(583, 1)
    ELSE IF Str(response, "shoppingHabits") = "addict" THEN PerMonth(1000, 1)
    ELSE 0

InitialShoppingElseBasics(response) ==
    IF Str(response, "shoppingHabits") = "moderate" THEN Gallons(583)
    ELSE IF Str(response, "shoppingHabits") = "addict" THEN Gallons(1000)
    ELSE Gallons(291)

InitialShopping(response) ==
    IF Str(response, "shoppingHabits") = "basics" THEN Gallons(291)
    ELSE IF Str(response, "shoppingHabits") = "moderate" THEN Gallons(583)
    ELSE IF Str(response, "shoppingHabits") = "addict" THEN Gallons(1000)
    ELSE 0

\* the eleven categories before the total is formed
InitialCategories(response) ==
    [showerGallons     |-> InitialShower(response),
     toiletGallons     |-> 0,
     kitchenGallons    |-> 0,
     dishwasherGallons |-> InitialDishwasher(response),
     laundryGallons    |-> InitialLaundry(response),
     gardenGallons     |-> InitialGarden(response),
     poolGallons       |-> InitialPool(response),
     carWashGallons    |-> InitialCarWash(response),
     energyGallons     |-> InitialEnergy(response),
     shoppingGallons   |-> InitialShopping(response),
     otherGallons      |-> 0,
     totalGallons      |-> 0]

\* "Calculate total"
RecomputeTotal(c) == [c EXCEPT !.totalGallons = SumOfCategories(c)]

\* "If total is negative, add to other to ensure non-negative total"
UncorrectedTotal(c) == c

CorrectedIntoShower(c) ==
    IF c.totalGallons < 0
    THEN [c EXCEPT !.showerGallons = @ + Abs(c.totalGallons), !.totalGallons = 0]
    ELSE c

AlwaysIntoOther(c) ==
    IF c.totalGallons < 0
    THEN [c EXCEPT !.otherGallons = @ + Abs(c.totalGallons), !.totalGallons = 0]
    ELSE [c EXCEPT !.otherGallons = @ + Abs(c.totalGallons)]

NonNegativeCorrection(c) ==
    IF c.totalGallons < 0
    THEN [c EXCEPT !.otherGallons = @ + Abs(c.totalGallons), !.totalGallons = 0]
    ELSE c

\* "Convert all floating point values to integers"
TruncateAll(c) == [f \in BreakdownFields |-> c[f] \div Unit]

RoundAll(c) == [f \in BreakdownFields |-> MathRound(c[f])]

calculateInitialWaterConsumption(response) ==
    RoundAll(NonNegativeCorrection(RecomputeTotal(InitialCategories(response))))

-----------------------------------------------------------------------------
(* calculateDailyWaterConsumption, src/routes.ts 564-682 *)

LowFlow(initialResp, tag) == tag \in AppliancesOf(initialResp)

\* const updatedConsumption = { ...baseConsumption }, whole gallons
BaseCopyFromZero(initialResp) == [f \in BreakdownFields |-> 0]

BaseCopy(initialResp) ==
    LET baseConsumption == calculateInitialWaterConsumption(initialResp)
    IN  [f \in BreakdownFields |-> Gallons(baseConsumption[f])]

\* steps 1-12 in source order, each applied to the copy the steps before it
\* have updated

\* 1. Shower time
ShowerTimeAnyLowFlowTag(c, dailyResp, initialResp) ==
    IF Num(dailyResp, "showerMinutes") # 0
    THEN [c EXCEPT !.showerGallons = @ +
            (IF AppliancesOf(initialResp) # {}
             THEN Rate(18, 10, dailyResp["showerMinutes"])
             ELSE Rate(25, 10, dailyResp["showerMinutes"]))]
    ELSE c

ShowerTime(c, dailyResp, initialResp) ==
    IF Num(dailyResp, "showerMinutes") # 0
    THEN [c EXCEPT !.showerGallons = @ +
            (IF LowFlow(initialResp, "showerhead")
             THEN Rate(18, 10, dailyResp["showerMinutes"])
             ELSE Rate(25, 10, dailyResp["showerMinutes"]))]
    ELSE c

BathroomSinkByKitchenTag(c, dailyResp, initialResp) ==
    IF Num(dailyResp, "bathroomSinkMinutes") # 0
    THEN [c EXCEPT !.kitchenGallons = @ +
            (IF LowFlow(initialResp, "kitchen_sink")
             THEN Rate(15, 10, dailyResp["bathroomSinkMinutes"])
             ELSE Rate(22, 10, dailyResp["bathroomSinkMinutes"]))]
    ELSE c

\* 2. Bathroom sink usage
BathroomSink(c, dailyResp, initialResp) ==
    IF Num(dailyResp, "bathroomSinkMinutes") # 0
    THEN [c EXCEPT !.kitchenGallons = @ +
            (IF LowFlow(initialResp, "bathroom_sink")
             THEN Rate(15, 10, dailyResp["bathroomSinkMinutes"])
             ELSE Rate(22, 10, dailyResp["bathroomSinkMinutes"]))]
    ELSE c

\* 3. Kitchen sink usage
KitchenSink(c, dailyResp, initialResp) ==
    IF Num(dailyResp, "kitchenSinkMinutes") # 0
    THEN [c EXCEPT !.kitchenGallons = @ +
            (IF LowFlow(initialResp, "kitchen_sink")
             THEN Rate(15, 10, dailyResp["kitchenSinkMinutes"])
             ELSE Rate(22, 10, dailyResp["kitchenSinkMinutes"]))]
    ELSE c

\* 4. Toilet flushes
ToiletFlushesRatesSwapped(c, dailyResp, initialResp) ==
    IF Num(dailyResp, "toiletFlushes") # 0
    THEN [c EXCEPT !.toiletGallons = @ +
            (IF LowFlow(initialResp, "toilet")
             THEN Rate(35, 10, dailyResp["toiletFlushes"])
             ELSE Rate(16, 10, dailyResp["toiletFlushes"]))]
    ELSE c

ToiletFlushes(c, dailyResp, initialResp) ==
    IF Num(dailyResp, "toiletFlushes") # 0
    THEN [c EXCEPT !.toiletGallons = @ +
            (IF LowFlow(initialResp, "toilet")
             THEN Rate(16, 10, dailyResp["toiletFlushes"])
             ELSE Rate(35, 10, dailyResp["toiletFlushes"]))]
    ELSE c

\* 5. Rainwater collected (subtract from total)
Rainwater(c, dailyResp) ==
    IF Num(dailyResp, "rainwaterCollected") # 0
    THEN [c EXCEPT !.totalGallons = @ - Gallons(dailyResp["rainwaterCollected"])]
    ELSE c

\* 6. Miles driven
MilesDrivenIntoEnergy(c, dailyResp) ==
    IF Num(dailyResp, "milesDriven") # 0
    THEN [c EXCEPT !.energyGallons = @ + Rate(165, 1000, dailyResp["milesDriven"])]
    ELSE c

MilesDriven(c, dailyResp) ==
    IF Num(dailyResp, "milesDriven") # 0
    THEN [c EXCEPT !.otherGallons = @ + Rate(165, 1000, dailyResp["milesDriven"])]
    ELSE c

\* 7. Recycled paper
RecycledPaper(c, dailyResp) ==
    IF Num(dailyResp, "recycledPaper") # 0
    THEN [c EXCEPT !.otherGallons = @ + Rate(4, 100, dailyResp["recycledPaper"])]
    ELSE c

\* 8. Recycled plastic (subtract from total)
RecycledPlastic(c, dailyResp) ==
    IF Num(dailyResp, "recycledPlastic") # 0
    THEN [c EXCEPT !.totalGallons = @ - Rate(3, 100, dailyResp["recycledPlastic"])]
    ELSE c

\* 9. Recycled bottles & cans (subtract from total)
RecycledBottlesCans(c, dailyResp) ==
    IF Num(dailyResp, "recycledBottlesCans") # 0
    THEN [c EXCEPT !.totalGallons = @ - Rate(3, 100, dailyResp["recycledBottlesCans"])]
    ELSE c

\* 10. Veggies consumed
VeggiesConsumed(c, dailyResp) ==
    IF Num(dailyResp, "veggiesConsumed") # 0
    THEN [c EXCEPT !.otherGallons = @ + Rate(85, 1000, dailyResp["veggiesConsumed"])]
    ELSE c

\* 11. Meat consumed
MeatConsumed(c, dailyResp) ==
    IF Num(dailyResp, "meatConsumed") # 0
    THEN [c EXCEPT !.otherGallons = @ + Gallons(2 * dailyResp["meatConsumed"])]
    ELSE c

\* 12. Pet food
PetFoodUsed(c, dailyResp) ==
    IF Num(dailyResp, "petFoodUsed") # 0
    THEN [c EXCEPT !.otherGallons = @ + Rate(7, 10, dailyResp["petFoodUsed"])]
    ELSE c

DailyDeltas(dailyResp, initialResp) ==
    PetFoodUsed(
     MeatConsumed(
      VeggiesConsumed(
       RecycledBottlesCans(
        RecycledPlastic(
         RecycledPaper(
          MilesDriven(
           Rainwater(
            ToiletFlushes(
             KitchenSink(
              BathroomSink(
               ShowerTime(BaseCopy(initialResp), dailyResp, initialResp),
               dailyResp, initialResp),
              dailyResp, initialResp),
             dailyResp, initialResp),
            dailyResp),
           dailyResp),
          dailyResp),
         dailyResp),
        dailyResp),
       dailyResp),
      dailyResp),
     dailyResp)

\* lines 647-659: the running total is overwritten by the category sum
KeepRunningTotal(c) == c

DailyTotal(c) == [c EXCEPT !.totalGallons = SumOfCategories(c)]

calculateDailyWaterConsumption(dailyResp, initialResp) ==
    RoundAll(NonNegativeCorrection(DailyTotal(DailyDeltas(dailyResp, initialResp))))

-----------------------------------------------------------------------------
(* Inputs of the estimators *)

MaxBaths == 2

Tags == {"showerhead", "bathroom_sink", "kitchen_sink", "toilet"}

BathsValues == (0 .. MaxBaths) \cup {30}

NoFields == [f \in {} |-> 0]

\* the household part of a profile: every branch of steps 3-9 is taken by one
Households ==
    { NoFields,
      [dishwasherType |-> "none", dishwasherFrequency |-> 0,
       laundryType |-> "none", laundryFrequency |-> 0,
       hasGarden |-> FALSE, gardenArea |-> 0, gardenFrequency |-> 0,
       hasPool |-> FALSE, carWashMethod |-> "none", carWashFrequency |-> 0,
       utilityPercentage |-> 0, shoppingHabits |-> "basics"],
      [dishwasherType |-> "yes_not_efficient", dishwasherFrequency |-> 1],
      [laundryType |-> "yes_efficient", laundryFrequency |-> 1,
       carWashMethod |-> "self_service", carWashFrequency |-> 1],
      [hasGarden |-> TRUE, gardenArea |-> 100, gardenFrequency |-> 1,
       hasPool |-> TRUE, utilityPercentage |-> 25, shoppingHabits |-> "moderate"],
      [dishwasherType |-> "yes_efficient", dishwasherFrequency |-> 2,
       laundryType |-> "yes_not_efficient", laundryFrequency |-> 1,
       carWashMethod |-> "garden_hose", carWashFrequency |-> 1,
       utilityPercentage |-> 100, shoppingHabits |-> "addict"],
      [hasGarden |-> FALSE, gardenArea |-> 100, gardenFrequency |-> 1,
       carWashMethod |-> "drive_through", carWashFrequency |-> 1,
       shoppingHabits |-> "basics"],
      [dishwasherType |-> "none", dishwasherFrequency |-> 5,
       carWashMethod |-> "none", carWashFrequency |-> 3, hasPool |-> FALSE],
      [dishwasherType |-> "none", laundryType |-> "none", hasGarden |-> FALSE,
       hasPool |-> FALSE, carWashMethod |-> "none", utilityPercentage |-> 0,
       shoppingHabits |-> "moderate"],
      [dishwasherType |-> "none", laundryType |-> "none", hasGarden |-> FALSE,
       hasPool |-> FALSE, carWashMethod |-> "none", utilityPercentage |-> 0,
       shoppingHabits |-> "addict"],
      [dishwasherType |-> "none", laundryType |-> "none", hasGarden |-> FALSE,
       hasPool |-> TRUE, carWashMethod |-> "none", utilityPercentage |-> 0,
       shoppingHabits |-> "basics"],
      [dishwasherType |-> "yes_efficient", dishwasherFrequency |-> 30,
       laundryType |-> "yes_efficient", laundryFrequency |-> 20,
       carWashMethod |-> "drive_through", carWashFrequency |-> 4],
      [dishwasherType |-> "yes_not_efficient", dishwasherFrequency |-> 20,
       laundryType |-> "yes_not_efficient", laundryFrequency |-> 8,
       carWashMethod |-> "garden_hose", carWashFrequency |-> 2] }

\* a household with every appliance set and bath count, and each household
\* as it stands, without the appliances and bathsPerMonth keys
Profiles ==
    { Spread([appliances |-> a, bathsPerMonth |-> b], h) :
        a \in SUBSET Tags, b \in BathsValues, h \in Households }
    \cup Households

\* fields that only touch the running total
CreditFields == {"rainwaterCollected", "recycledPlastic", "recycledBottlesCans"}

UsageFields ==
    {"showerMinutes", "bathroomSinkMinutes", "kitchenSinkMinutes", "toiletFlushes",
     "milesDriven", "recycledPaper", "veggiesConsumed", "meatConsumed", "petFoodUsed"}

DailyFields == CreditFields \cup UsageFields

LoggedUnits == {1}

CreditUnits == {0, 5}

\* an activity logs at most two usage fields, and any of the credit fields;
\* or a ten-minute shower, three flushes, ten minutes at one sink, or a day of
\* driving, recycling and eating
Activities ==
    { Spread(u, c) :
        u \in UNION { [S -> LoggedUnits] :
                        S \in { T \in SUBSET UsageFields : Cardinality(T) <= 2 } }
              \cup { [showerMinutes |-> 10], [toiletFlushes |-> 3],
                     [bathroomSinkMinutes |-> 10], [kitchenSinkMinutes |-> 10],
                     [milesDriven |-> 20, recycledPaper |-> 60],
                     [milesDriven |-> 20, recycledPaper |-> 60,
                      veggiesConsumed |-> 30, meatConsumed |-> 2,
                      petFoodUsed |-> 4] },
        c \in [CreditFields -> CreditUnits] }

-----------------------------------------------------------------------------
(* The estimators called on their own *)

NoBreakdown == [f \in BreakdownFields |-> 0]

HttpIdle ==
    /\ users = << >>
    /\ initialQuizResponses = << >>
    /\ dailyQuizResponses = << >>
    /\ waterConsumption = << >>
    /\ today = 1
    /\ requests = << >>
    /\ lastResponse = NoFields
    /\ served = 0

InitCalc ==
    /\ initialResponse \in Profiles
    /\ dailyResponse = NoFields
    /\ called = "none"
    /\ returned = NoBreakdown
    /\ HttpIdle

EstimateBaseline ==
    /\ called = "none"
    /\ called' = "initial"
    /\ returned' = calculateInitialWaterConsumption(initialResponse)
    /\ UNCHANGED <<initialResponse, dailyResponse>>
    /\ UNCHANGED httpVars

AdjustForDay ==
    /\ called = "none"
    /\ \E d \in Activities :
        /\ dailyResponse' = d
        /\ returned' = calculateDailyWaterConsumption(d, initialResponse)
    /\ called' = "daily"
    /\ UNCHANGED initialResponse
    /\ UNCHANGED httpVars

NextCalc == EstimateBaseline \/ AdjustForDay

SpecCalc == InitCalc /\ [][NextCalc]_vars

-----------------------------------------------------------------------------
(* Tables, src/unnamed/part_000.  A table is the sequence of its rows in    *)
(* insert order; no row is ever deleted, so a row's serial id is its        *)
(* position.  The date column is kept at calendar-day granularity, which is *)
(* all the storage layer's day-window queries distinguish.                  *)

Users == {1, 2}

MaxDay == 2

MaxRequests == 4

\* requests served when requests may overlap
MaxOverlapping == 3

Slots == {1, 2}

UserDefaults == [waterGoal |-> 1400, initialQuizCompleted |-> FALSE]

InitialQuizDefaults ==
    [appliances |-> {}, greywater |-> FALSE, bathsPerMonth |-> 0,
     dishwasherType |-> "none", dishwasherFrequency |-> 0,
     laundryType |-> "none", laundryFrequency |-> 0,
     hasGarden |-> FALSE, gardenArea |-> 0, gardenFrequency |-> 0,
     hasPool |-> FALSE, carWashMethod |-> "none", carWashFrequency |-> 0,
     utilityPercentage |-> 0, shoppingHabits |-> "basics"]

DailyQuizDefaults == [f \in DailyFields |-> 0]

WaterConsumptionDefaults == [f \in BreakdownFields |-> 0]

Rows(table) == { table[i] : i \in DOMAIN table }

\* const [row] = await db.select()...: the first row of a result that has no
\* ORDER BY; which of several matching rows comes first is up to the
\* database.  The empty set stands for undefined.
FirstOf(matching) == IF matching = {} THEN { {} } ELSE { {r} : r \in matching }

-----------------------------------------------------------------------------
(* DatabaseStorage, src/unnamed/part_002 *)

getInitialQuizResponse(userId) ==
    { r \in Rows(initialQuizResponses) : r.userId = userId }

createInitialQuizResponse(insertResponse) ==
    Append(initialQuizResponses,
           Spread(Spread(InitialQuizDefaults, insertResponse),
                  [id |-> Len(initialQuizResponses) + 1]))

\* UPDATE ... SET updateData WHERE user_id = userId: every matching row
updateInitialQuizResponse(userId, updateData) ==
    [i \in DOMAIN initialQuizResponses |->
        IF initialQuizResponses[i].userId = userId
        THEN Spread(initialQuizResponses[i], updateData)
        ELSE initialQuizResponses[i]]

updatedInitialQuizRows(userId, updateData) ==
    { Spread(r, updateData) : r \in getInitialQuizResponse(userId) }

getDailyQuizResponse(userId, date) ==
    { r \in Rows(dailyQuizResponses) : r.userId = userId /\ r.date = date }

\* the date column defaults to now()
createDailyQuizResponse(insertResponse) ==
    Append(dailyQuizResponses,
           Spread(Spread(DailyQuizDefaults, insertResponse),
                  [id |-> Len(dailyQuizResponses) + 1, date |-> today]))

updateDailyQuizResponseOfAnyDay(userId, date, updateData) ==
    [i \in DOMAIN dailyQuizResponses |->
        IF dailyQuizResponses[i].userId = userId
        THEN Spread(dailyQuizResponses[i], updateData)
        ELSE dailyQuizResponses[i]]

updateDailyQuizResponse(userId, date, updateData) ==
    [i \in DOMAIN dailyQuizResponses |->
        IF dailyQuizResponses[i].userId = userId /\ dailyQuizResponses[i].date = date
        THEN Spread(dailyQuizResponses[i], updateData)
        ELSE dailyQuizResponses[i]]

updatedDailyQuizRows(userId, date, updateData) ==
    { Spread(r, updateData) : r \in getDailyQuizResponse(userId, date) }

getWaterConsumption(userId, date) ==
    { r \in Rows(waterConsumption) : r.userId = userId /\ r.date = date }

createWaterConsumption(insertConsumption) ==
    Append(waterConsumption,
           Spread(Spread(WaterConsumptionDefaults, insertConsumption),
                  [id |-> Len(waterConsumption) + 1, date |-> today]))

updateWaterConsumption(userId, date, updateData) ==
    [i \in DOMAIN waterConsumption |->
        IF waterConsumption[i].userId = userId /\ waterConsumption[i].date = date
        THEN Spread(waterConsumption[i], updateData)
        ELSE waterConsumption[i]]

updateUserInitialQuizStatus(userId, completed) ==
    [users EXCEPT ![userId].initialQuizCompleted = completed]

-----------------------------------------------------------------------------
(* Requests, src/routes.ts.  A handler runs from one await to the next as   *)
(* one step; its local variables live in the request's record.             *)

IdleRequest ==
    [route |-> "idle", pc |-> "idle", userId |-> 0, body |-> NoFields,
     existingResponse |-> {}, initialQuizResponse |-> {}, response |-> {},
     existingConsumption |-> {}, consumption |-> NoBreakdown]

\* request bodies that pass initialQuizValidationSchema; the handler always
\* supplies appliances (line 35)
InitialQuizBodies ==
    { [appliances |-> {}],
      [appliances |-> {"showerhead"}, bathsPerMonth |-> 2,
       dishwasherType |-> "yes_not_efficient", dishwasherFrequency |-> 1],
      [appliances |-> {"toilet"}, hasPool |-> TRUE, shoppingHabits |-> "moderate"] }

\* request bodies that pass dailyQuizValidationSchema
DailyQuizBodies ==
    { [showerMinutes |-> 1],
      [toiletFlushes |-> 1, rainwaterCollected |-> 5] }

\* the schema strips unknown keys from its parsed result only; the PATCH
\* handler hands the raw body to the storage layer (line 272)
RawDailyQuizBodies ==
    DailyQuizBodies \cup { [meatConsumed |-> 1, userId |-> u] : u \in Users }

AllIdle == \A s \in Slots : requests[s].pc = "idle"

LowestIdle(s) ==
    /\ requests[s].pc = "idle"
    /\ \A t \in Slots : t < s => requests[t].pc # "idle"

\* the handler goes on whether or not the request has a session; without one
\* req.user is undefined (user 0)
AcceptWithoutSession(s, route, userId, authenticated, body, firstPc) ==
    /\ requests[s].pc = "idle"
    /\ served < MaxRequests
    /\ served' = served + 1
    /\ requests' = [requests EXCEPT ![s] =
                       [IdleRequest EXCEPT !.route = route, !.pc = firstPc,
                                           !.userId = IF authenticated THEN userId
                                                      ELSE 0,
                                           !.body = body]]
    /\ UNCHANGED lastResponse
    /\ UNCHANGED <<tables, today>>
    /\ UNCHANGED calcVars

\* req.isAuthenticated() fails: 401 and nothing else happens; the request has
\* no user (user 0)
Accept(s, route, userId, authenticated, body, firstPc) ==
    /\ requests[s].pc = "idle"
    /\ served < MaxRequests
    /\ served' = served + 1
    /\ IF authenticated
       THEN /\ requests' = [requests EXCEPT ![s] =
                               [IdleRequest EXCEPT !.route = route, !.pc = firstPc,
                                                   !.userId = userId, !.body = body]]
            /\ UNCHANGED lastResponse
       ELSE /\ lastResponse' = [route |-> route, userId |-> 0, day |-> today,
                                 status |-> 401]
            /\ UNCHANGED requests
    /\ UNCHANGED <<tables, today>>
    /\ UNCHANGED calcVars

Respond(s, status) ==
    /\ lastResponse' = [route |-> requests[s].route, userId |-> requests[s].userId,
                        day |-> today, status |-> status]
    /\ requests' = [requests EXCEPT ![s] = IdleRequest]

Goto(s, pc) == [requests[s] EXCEPT !.pc = pc]

At(s, route, pc) == requests[s].route = route /\ requests[s].pc = pc

-----------------------------------------------------------------------------
(* POST /api/initial-quiz, lines 28-129 *)

PostInitialQuiz(s) ==
    \E userId \in Users, authenticated \in BOOLEAN, body \in InitialQuizBodies :
        Accept(s, "POST /api/initial-quiz", userId, authenticated, body, "getInitialQuizResponse")

\* line 45
IQ_GetInitialQuizResponse(s) ==
    /\ At(s, "POST /api/initial-quiz", "getInitialQuizResponse")
    /\ \E found \in FirstOf(getInitialQuizResponse(requests[s].userId)) :
          requests' = [requests EXCEPT ![s] =
              [requests[s] EXCEPT !.existingResponse = found,
                                  !.pc = IF found # {} THEN "updateInitialQuizResponse"
                                                       ELSE "createInitialQuizResponse"]]
    /\ UNCHANGED <<tables, today, lastResponse, served>>
    /\ UNCHANGED calcVars

\* lines 50-55
IQ_UpdateInitialQuizResponse(s) ==
    LET r == requests[s]
        updateData == Spread(r.body, [userId |-> r.userId])
    IN  /\ At(s, "POST /api/initial-quiz", "updateInitialQuizResponse")
        /\ initialQuizResponses' = updateInitialQuizResponse(r.userId, updateData)
        /\ \E updated \in FirstOf(updatedInitialQuizRows(r.userId, updateData)) :
              IF updated = {}
              THEN Respond(s, 500)
              ELSE /\ requests' = [requests EXCEPT ![s] =
                        [r EXCEPT !.response = updated, !.pc = "updateUserInitialQuizStatus"]]
                   /\ UNCHANGED lastResponse
        /\ UNCHANGED <<users, dailyQuizResponses, waterConsumption, today, served>>
        /\ UNCHANGED calcVars

\* lines 99-102
IQ_CreateInitialQuizResponse(s) ==
    LET r == requests[s]
        table == createInitialQuizResponse(Spread(r.body, [userId |-> r.userId]))
    IN  /\ At(s, "POST /api/initial-quiz", "createInitialQuizResponse")
        /\ initialQuizResponses' = table
        /\ requests' = [requests EXCEPT ![s] =
              [r EXCEPT !.response = {table[Len(table)]},
                        !.pc = "updateUserInitialQuizStatus"]]
        /\ UNCHANGED <<users, dailyQuizResponses, waterConsumption, today,
                       lastResponse, served>>
        /\ UNCHANGED calcVars

\* lines 58-66 and 105-115: the user is marked, the session saved, and the
\* baseline computed from the row the storage layer returned
IQ_UpdateUserInitialQuizStatus(s) ==
    LET r == requests[s]
        row == CHOOSE x \in r.response : TRUE
    IN  /\ At(s, "POST /api/initial-quiz", "updateUserInitialQuizStatus")
        /\ users' = updateUserInitialQuizStatus(r.userId, TRUE)
        /\ requests' = [requests EXCEPT ![s] =
              [r EXCEPT !.consumption = calculateInitialWaterConsumption(row),
                        !.pc = IF r.existingResponse # {} THEN "getWaterConsumption"
                                                          ELSE "createWaterConsumption"]]
        /\ UNCHANGED <<initialQuizResponses, dailyQuizResponses, waterConsumption,
                       today, lastResponse, served>>
        /\ UNCHANGED calcVars

\* lines 69-72
IQ_GetWaterConsumption(s) ==
    LET r == requests[s]
    IN  /\ At(s, "POST /api/initial-quiz", "getWaterConsumption")
        /\ \E found \in FirstOf(getWaterConsumption(r.userId, today)) :
              requests' = [requests EXCEPT ![s] =
                  [r EXCEPT !.existingConsumption = found,
                            !.pc = IF found # {} THEN "getDailyQuizResponse"
                                                 ELSE "createWaterConsumption"]]
        /\ UNCHANGED <<tables, today, lastResponse, served>>
        /\ UNCHANGED calcVars

\* lines 75-86: with a daily quiz for today the breakdown is recomputed from
\* it and the updated profile, otherwise the baseline is kept
IQ_GetDailyQuizResponse(s) ==
    LET r == requests[s]
        updatedResponse == CHOOSE x \in r.response : TRUE
    IN  /\ At(s, "POST /api/initial-quiz", "getDailyQuizResponse")
        /\ \E found \in FirstOf(getDailyQuizResponse(r.userId, today)) :
              requests' = [requests EXCEPT ![s] =
                  [r EXCEPT !.consumption =
                                IF found # {}
                                THEN calculateDailyWaterConsumption(
                                        CHOOSE d \in found : TRUE, updatedResponse)
                                ELSE r.consumption,
                            !.pc = "updateWaterConsumption"]]
        /\ UNCHANGED <<tables, today, lastResponse, served>>
        /\ UNCHANGED calcVars

\* lines 81, 85, 95
IQ_UpdateWaterConsumption(s) ==
    LET r == requests[s]
    IN  /\ At(s, "POST /api/initial-quiz", "updateWaterConsumption")
        /\ waterConsumption' = updateWaterConsumption(r.userId, today, r.consumption)
        /\ Respond(s, 200)
        /\ UNCHANGED <<users, initialQuizResponses, dailyQuizResponses, today, served>>
        /\ UNCHANGED calcVars

\* lines 89-95 (retake without a breakdown for today) and 118-123 (first
\* submission)
IQ_CreateWaterConsumption(s) ==
    LET r == requests[s]
    IN  /\ At(s, "POST /api/initial-quiz", "createWaterConsumption")
        /\ waterConsumption' =
              createWaterConsumption(Spread(r.consumption, [userId |-> r.userId]))
        /\ Respond(s, IF r.existingResponse # {} THEN 200 ELSE 201)
        /\ UNCHANGED <<users, initialQuizResponses, dailyQuizResponses, today, served>>
        /\ UNCHANGED calcVars

-----------------------------------------------------------------------------
(* POST /api/daily-quiz, lines 155-236 *)

PostDailyQuiz(s) ==
    \E userId \in Users, authenticated \in BOOLEAN, body \in DailyQuizBodies :
        Accept(s, "POST /api/daily-quiz", userId, authenticated, body, "getDailyQuizResponse")

\* line 171
DQ_GetDailyQuizResponse(s) ==
    LET r == requests[s]
    IN  /\ At(s, "POST /api/daily-quiz", "getDailyQuizResponse")
        /\ \E found \in FirstOf(getDailyQuizResponse(r.userId, today)) :
              requests' = [requests EXCEPT ![s] =
                  [r EXCEPT !.existingResponse = found, !.pc = "getInitialQuizResponse"]]
        /\ UNCHANGED <<tables, today, lastResponse, served>>
        /\ UNCHANGED calcVars

\* lines 175-181
DQ_GetInitialQuizResponse(s) ==
    LET r == requests[s]
    IN  /\ At(s, "POST /api/daily-quiz", "getInitialQuizResponse")
        /\ \E found \in FirstOf(getInitialQuizResponse(r.userId)) :
              IF found = {}
              THEN Respond(s, 400)
              ELSE /\ requests' = [requests EXCEPT ![s] =
                        [r EXCEPT !.initialQuizResponse = found,
                                  !.pc = IF r.existingResponse # {}
                                         THEN "updateDailyQuizResponse"
                                         ELSE "createDailyQuizResponse"]]
                   /\ UNCHANGED lastResponse
        /\ UNCHANGED <<tables, today, served>>
        /\ UNCHANGED calcVars

\* lines 183-191
DQ_UpdateDailyQuizResponse(s) ==
    LET r == requests[s]
        updateData == Spread(r.body, [userId |-> r.userId])
        initialQuizResponse == CHOOSE x \in r.initialQuizResponse : TRUE
    IN  /\ At(s, "POST /api/daily-quiz", "updateDailyQuizResponse")
        /\ dailyQuizResponses' = updateDailyQuizResponse(r.userId, today, updateData)
        /\ \E updated \in FirstOf(updatedDailyQuizRows(r.userId, today, updateData)) :
              IF updated = {}
              THEN Respond(s, 500)
              ELSE /\ requests' = [requests EXCEPT ![s] =
                        [r EXCEPT !.response = updated,
                                  !.consumption = calculateDailyWaterConsumption(
                                        CHOOSE d \in updated : TRUE, initialQuizResponse),
                                  !.pc = "getWaterConsumption"]]
                   /\ UNCHANGED lastResponse
        /\ UNCHANGED <<users, initialQuizResponses, waterConsumption, today, served>>
        /\ UNCHANGED calcVars

\* lines 208-214
DQ_CreateDailyQuizResponse(s) ==
    LET r == requests[s]
        table == createDailyQuizResponse(Spread(r.body, [userId |-> r.userId]))
        newResponse == table[Len(table)]
        initialQuizResponse == CHOOSE x \in r.initialQuizResponse : TRUE
    IN  /\ At(s, "POST /api/daily-quiz", "createDailyQuizResponse")
        /\ dailyQuizResponses' = table
        /\ requests' = [requests EXCEPT ![s] =
              [r EXCEPT !.response = {newResponse},
                        !.consumption = calculateDailyWaterConsumption(newResponse,
                                                                       initialQuizResponse),
                        !.pc = "getWaterConsumption"]]
        /\ UNCHANGED <<users, initialQuizResponses, waterConsumption, today,
                       lastResponse, served>>
        /\ UNCHANGED calcVars

\* lines 194 and 217
DQ_GetWaterConsumption(s) ==
    LET r == requests[s]
    IN  /\ At(s, "POST /api/daily-quiz", "getWaterConsumption")
        /\ \E found \in FirstOf(getWaterConsumption(r.userId, today)) :
              requests' = [requests EXCEPT ![s] =
                  [r EXCEPT !.existingConsumption = found, !.pc = "saveWaterConsumption"]]
        /\ UNCHANGED <<tables, today, lastResponse, served>>
        /\ UNCHANGED calcVars

\* lines 196-205 and 219-230: update the day's breakdown if one was found,
\* insert one otherwise
DQ_SaveWaterConsumption(s) ==
    LET r == requests[s]
    IN  /\ At(s, "POST /api/daily-quiz", "saveWaterConsumption")
        /\ waterConsumption' =
              IF r.existingConsumption # {}
              THEN updateWaterConsumption(r.userId, today, r.consumption)
              ELSE createWaterConsumption(Spread(r.consumption, [userId |-> r.userId]))
        /\ Respond(s, IF r.existingResponse # {} THEN 200 ELSE 201)
        /\ UNCHANGED <<users, initialQuizResponses, dailyQuizResponses, today, served>>
        /\ UNCHANGED calcVars

-----------------------------------------------------------------------------
(* PATCH /api/daily-quiz, lines 248-307 *)

PatchDailyQuiz(s) ==
    \E userId \in Users, authenticated \in BOOLEAN, body \in RawDailyQuizBodies :
        Accept(s, "PATCH /api/daily-quiz", userId, authenticated, body, "getDailyQuizResponse")

\* lines 265-269
PQ_GetDailyQuizResponse(s) ==
    LET r == requests[s]
    IN  /\ At(s, "PATCH /api/daily-quiz", "getDailyQuizResponse")
        /\ \E found \in FirstOf(getDailyQuizResponse(r.userId, today)) :
              IF found = {}
              THEN Respond(s, 404)
              ELSE /\ requests' = [requests EXCEPT ![s] =
                        [r EXCEPT !.existingResponse = found,
                                  !.pc = "updateDailyQuizResponse"]]
                   /\ UNCHANGED lastResponse
        /\ UNCHANGED <<tables, today, served>>
        /\ UNCHANGED calcVars

\* lines 272-276: the update data is req.body as received
PQ_UpdateDailyQuizResponse(s) ==
    LET r == requests[s]
    IN  /\ At(s, "PATCH /api/daily-quiz", "updateDailyQuizResponse")
        /\ dailyQuizResponses' = updateDailyQuizResponse(r.userId, today, r.body)
        /\ \E updated \in FirstOf(updatedDailyQuizRows(r.userId, today, r.body)) :
              IF updated = {}
              THEN Respond(s, 500)
              ELSE /\ requests' = [requests EXCEPT ![s] =
                        [r EXCEPT !.response = updated, !.pc = "getInitialQuizResponse"]]
                   /\ UNCHANGED lastResponse
        /\ UNCHANGED <<users, initialQuizResponses, waterConsumption, today, served>>
        /\ UNCHANGED calcVars

\* lines 279-281 and 301-302: without a profile the breakdown is left alone
PQ_GetInitialQuizResponse(s) ==
    LET r == requests[s]
        updatedResponse == CHOOSE x \in r.response : TRUE
    IN  /\ At(s, "PATCH /api/daily-quiz", "getInitialQuizResponse")
        /\ \E found \in FirstOf(getInitialQuizResponse(r.userId)) :
              IF found = {}
              THEN Respond(s, 200)
              ELSE /\ requests' = [requests EXCEPT ![s] =
                        [r EXCEPT !.initialQuizResponse = found,
                                  !.consumption = calculateDailyWaterConsumption(
                                        updatedResponse, CHOOSE x \in found : TRUE),
                                  !.pc = "getWaterConsumption"]]
                   /\ UNCHANGED lastResponse
        /\ UNCHANGED <<tables, today, served>>
        /\ UNCHANGED calcVars

\* line 284
PQ_GetWaterConsumption(s) ==
    LET r == requests[s]
    IN  /\ At(s, "PATCH /api/daily-quiz", "getWaterConsumption")
        /\ \E found \in FirstOf(getWaterConsumption(r.userId, today)) :
              requests' = [requests EXCEPT ![s] =
                  [r EXCEPT !.existingConsumption = found, !.pc = "saveWaterConsumption"]]
        /\ UNCHANGED <<tables, today, lastResponse, served>>
        /\ UNCHANGED calcVars

\* lines 286-302
PQ_SaveWaterConsumption(s) ==
    LET r == requests[s]
    IN  /\ At(s, "PATCH /api/daily-quiz", "saveWaterConsumption")
        /\ waterConsumption' =
              IF r.existingConsumption # {}
              THEN updateWaterConsumption(r.userId, today, r.consumption)
              ELSE createWaterConsumption(Spread(r.consumption, [userId |-> r.userId]))
        /\ Respond(s, 200)
        /\ UNCHANGED <<users, initialQuizResponses, dailyQuizResponses, today, served>>
        /\ UNCHANGED calcVars

-----------------------------------------------------------------------------
(* GET /api/water-consumption, lines 310-335 *)

GetWaterConsumption(s) ==
    \E userId \in Users, authenticated \in BOOLEAN :
        Accept(s, "GET /api/water-consumption", userId, authenticated, NoFields,
               "getWaterConsumption")

\* lines 314-316 and 334
WC_GetWaterConsumption(s) ==
    LET r == requests[s]
    IN  /\ At(s, "GET /api/water-consumption", "getWaterConsumption")
        /\ \E found \in FirstOf(getWaterConsumption(r.userId, today)) :
              IF found # {}
              THEN Respond(s, 200)
              ELSE /\ requests' = [requests EXCEPT ![s] = Goto(s, "getInitialQuizResponse")]
                   /\ UNCHANGED lastResponse
        /\ UNCHANGED <<tables, today, served>>
        /\ UNCHANGED calcVars

\* lines 318-322 and 331
WC_GetInitialQuizResponse(s) ==
    LET r == requests[s]
    IN  /\ At(s, "GET /api/water-consumption", "getInitialQuizResponse")
        /\ \E found \in FirstOf(getInitialQuizResponse(r.userId)) :
              IF found = {}
              THEN Respond(s, 200)
              ELSE /\ requests' = [requests EXCEPT ![s] =
                        [r EXCEPT !.initialQuizResponse = found,
                                  !.consumption = calculateInitialWaterConsumption(
                                                     CHOOSE x \in found : TRUE),
                                  !.pc = "createWaterConsumption"]]
                   /\ UNCHANGED lastResponse
        /\ UNCHANGED <<tables, today, served>>
        /\ UNCHANGED calcVars

\* lines 323-328
WC_CreateWaterConsumption(s) ==
    LET r == requests[s]
    IN  /\ At(s, "GET /api/water-consumption", "createWaterConsumption")
        /\ waterConsumption' =
              createWaterConsumption(Spread(r.consumption, [userId |-> r.userId]))
        /\ Respond(s, 200)
        /\ UNCHANGED <<users, initialQuizResponses, dailyQuizResponses, today, served>>
        /\ UNCHANGED calcVars

-----------------------------------------------------------------------------
(* The server *)

\* midnight passes; requests are taken to finish within the day they start
Midnight ==
    /\ AllIdle
    /\ today < MaxDay
    /\ today' = today + 1
    /\ UNCHANGED <<tables, requests, lastResponse, served>>
    /\ UNCHANGED calcVars

Init ==
    /\ initialResponse = NoFields
    /\ dailyResponse = NoFields
    /\ called = "none"
    /\ returned = NoBreakdown
    /\ users = [u \in Users |-> UserDefaults]
    /\ initialQuizResponses = << >>
    /\ dailyQuizResponses = << >>
    /\ waterConsumption = << >>
    /\ today = 1
    /\ requests = [s \in Slots |-> IdleRequest]
    /\ lastResponse = [route |-> "none", userId |-> 0, day |-> 0, status |-> 0]
    /\ served = 0

Arrive(s) ==
    \/ PostInitialQuiz(s)
    \/ PostDailyQuiz(s)
    \/ PatchDailyQuiz(s)
    \/ GetWaterConsumption(s)

Step(s) ==
    \/ IQ_GetInitialQuizResponse(s)
    \/ IQ_UpdateInitialQuizResponse(s)
    \/ IQ_CreateInitialQuizResponse(s)
    \/ IQ_UpdateUserInitialQuizStatus(s)
    \/ IQ_GetWaterConsumption(s)
    \/ IQ_GetDailyQuizResponse(s)
    \/ IQ_UpdateWaterConsumption(s)
    \/ IQ_CreateWaterConsumption(s)
    \/ DQ_GetDailyQuizResponse(s)
    \/ DQ_GetInitialQuizResponse(s)
    \/ DQ_UpdateDailyQuizResponse(s)
    \/ DQ_CreateDailyQuizResponse(s)
    \/ DQ_GetWaterConsumption(s)
    \/ DQ_SaveWaterConsumption(s)
    \/ PQ_GetDailyQuizResponse(s)
    \/ PQ_UpdateDailyQuizResponse(s)
    \/ PQ_GetInitialQuizResponse(s)
    \/ PQ_GetWaterConsumption(s)
    \/ PQ_SaveWaterConsumption(s)
    \/ WC_GetWaterConsumption(s)
    \/ WC_GetInitialQuizResponse(s)
    \/ WC_CreateWaterConsumption(s)

\* requests one after the other: a request arrives when none is in flight
Next ==
    \/ (AllIdle /\ Arrive(1))
    \/ Step(1)
    \/ Midnight

Spec == Init /\ [][Next]_vars

\* concurrent requests of one authenticated user: the awaits of the requests
\* in flight interleave
NextConcurrent ==
    \/ \E s \in Slots :
          /\ served < MaxOverlapping
          /\ LowestIdle(s)
          /\ Arrive(s)
          /\ requests'[s].userId = 1
    \/ \E s \in Slots : Step(s)
    \/ Midnight

SpecConcurrent == Init /\ [][NextConcurrent]_vars

-----------------------------------------------------------------------------
(* POST /api/goal, lines 13-25 and 338-387.  The path is registered twice;  *)
(* the router hands a request to the handlers of a path in registration     *)
(* order, and to a later one only when the earlier one calls next().        *)

\* a JSON number, kept in tenths so that a fractional goal can be sent
JsonNumber(tenths) == [type |-> "number", tenths |-> tenths]

Whole(n) == n * 10

GoalValues ==
    { [type |-> "undefined"], [type |-> "string", text |-> "1500"] }
    \cup { JsonNumber(t) : t \in { Whole(0), 0 - Whole(1), Whole(800) - 1, Whole(800),
                                   Whole(1000) + 5, Whole(2000), Whole(2000) + 1,
                                   Whole(3000) } }

\* the two handlers of the path, in registration order (lines 13 and 338)
GoalHandlers == << "range", "nonNegative" >>

LastRegistered(handlers) == handlers[Len(handlers)]

\* neither handler calls next(), so the first one registered answers
Dispatched(handlers) == handlers[1]

\* line 17 and line 343: the goals a handler does not answer with 400
GoalAccepted(handler, goal) ==
    IF handler = "range"
    THEN /\ goal.type = "number"
         /\ goal.tenths # 0
         /\ goal.tenths >= Whole(800)
         /\ goal.tenths <= Whole(2000)
    ELSE /\ goal.type = "number"
         /\ goal.tenths >= 0

\* line 21 (the goal as sent) and line 351 (Math.round), in tenths
GoalToStore(handler, goal) ==
    IF handler = "range"
    THEN goal.tenths
    ELSE Whole((goal.tenths + 5) \div 10)

\* part_002 67-95
updateUserGoal(userId, goal) == [users EXCEPT ![userId].waterGoal = goal]

GoalResponse(userId, status, goal) ==
    [route |-> "POST /api/goal", userId |-> userId, day |-> today,
     status |-> status, goal |-> goal]

\* lines 14-19 (339-345): 401, 400, or on to the update
PostGoal(s) ==
    \E userId \in Users, authenticated \in BOOLEAN, goal \in GoalValues :
        IF authenticated /\ ~GoalAccepted(Dispatched(GoalHandlers), goal)
        THEN /\ requests[s].pc = "idle"
             /\ served < MaxRequests
             /\ served' = served + 1
             /\ lastResponse' = GoalResponse(userId, 400, goal)
             /\ UNCHANGED <<tables, today, requests>>
             /\ UNCHANGED calcVars
        ELSE Accept(s, "POST /api/goal", userId, authenticated, [goal |-> goal],
                    "updateUserGoal")

\* lines 21-24 (354-376).  water_goal is an integer column: the database
\* refuses a fractional value, the handler throws and sends no response
\* (status 0).
G_UpdateUserGoal(s) ==
    LET r == requests[s]
        tenths == GoalToStore(Dispatched(GoalHandlers), r.body.goal)
    IN  /\ At(s, "POST /api/goal", "updateUserGoal")
        /\ IF tenths % 10 # 0
           THEN /\ lastResponse' = GoalResponse(r.userId, 0, r.body.goal)
                /\ UNCHANGED users
           ELSE /\ lastResponse' = GoalResponse(r.userId, 200, r.body.goal)
                /\ users' = updateUserGoal(r.userId, tenths \div 10)
        /\ requests' = [requests EXCEPT ![s] = IdleRequest]
        /\ UNCHANGED <<initialQuizResponses, dailyQuizResponses, waterConsumption,
                       today, served>>
        /\ UNCHANGED calcVars

\* goal requests only, overlapping
NextGoal ==
    \/ \E s \in Slots : LowestIdle(s) /\ PostGoal(s)
    \/ \E s \in Slots : G_UpdateUserGoal(s)

SpecGoal == Init /\ [][NextGoal]_vars

-----------------------------------------------------------------------------
(* The read-only routes, POST /api/profile and GET /api/user *)

\* GET /api/initial-quiz, lines 131-135
GetInitialQuiz(s) ==
    \E userId \in Users, authenticated \in BOOLEAN :
        Accept(s, "GET /api/initial-quiz", userId, authenticated, NoFields,
               "getInitialQuizResponse")

\* lines 137-152
GI_GetInitialQuizResponse(s) ==
    /\ At(s, "GET /api/initial-quiz", "getInitialQuizResponse")
    /\ \E found \in FirstOf(getInitialQuizResponse(requests[s].userId)) :
          Respond(s, IF found = {} THEN 404 ELSE 200)
    /\ UNCHANGED <<tables, today, served>>
    /\ UNCHANGED calcVars

\* GET /api/daily-quiz, lines 238-241
GetDailyQuiz(s) ==
    \E userId \in Users, authenticated \in BOOLEAN :
        Accept(s, "GET /api/daily-quiz", userId, authenticated, NoFields,
               "getDailyQuizResponse")

\* lines 242-245
GD_GetDailyQuizResponse(s) ==
    /\ At(s, "GET /api/daily-quiz", "getDailyQuizResponse")
    /\ Respond(s, 200)
    /\ UNCHANGED <<tables, today, served>>
    /\ UNCHANGED calcVars

JsonString(text) == [type |-> "string", text |-> text]

ProfileBodies ==
    { [name |-> JsonString("Ann")],
      [name |-> JsonString("Ann"), email |-> JsonString("ann@example.org")],
      [phone |-> JsonNumber(5550100)] }

\* lines 396-400: a truthy field that is not a string
ProfileInvalid(body) ==
    \E f \in DOMAIN body :
        /\ body[f].type # "string"
        /\ ~(body[f].type = "number" /\ body[f].tenths = 0)

\* part_002 127-155
updateUserProfile(userId, profileData) ==
    [users EXCEPT ![userId] =
        Spread(@, [f \in DOMAIN profileData |-> profileData[f].text])]

\* POST /api/profile, lines 390-400
PostProfile(s) ==
    \E userId \in Users, authenticated \in BOOLEAN, body \in ProfileBodies :
        IF authenticated /\ ProfileInvalid(body)
        THEN /\ requests[s].pc = "idle"
             /\ served < MaxRequests
             /\ served' = served + 1
             /\ lastResponse' = [route |-> "POST /api/profile", userId |-> userId,
                                 day |-> today, status |-> 400]
             /\ UNCHANGED <<tables, today, requests>>
             /\ UNCHANGED calcVars
        ELSE Accept(s, "POST /api/profile", userId, authenticated, body,
                    "updateUserProfile")

\* lines 402-441
PP_UpdateUserProfile(s) ==
    /\ At(s, "POST /api/profile", "updateUserProfile")
    /\ users' = updateUserProfile(requests[s].userId, requests[s].body)
    /\ Respond(s, 200)
    /\ UNCHANGED <<initialQuizResponses, dailyQuizResponses, waterConsumption,
                   today, served>>
    /\ UNCHANGED calcVars

\* GET /api/user, src/auth.ts 159-162: answered without an await
GetUser(s) ==
    \E userId \in Users, authenticated \in BOOLEAN :
        /\ requests[s].pc = "idle"
        /\ served < MaxRequests
        /\ served' = served + 1
        /\ lastResponse' = [route |-> "GET /api/user",
                            userId |-> IF authenticated THEN userId ELSE 0,
                            day |-> today,
                            status |-> IF authenticated THEN 200 ELSE 401]
        /\ UNCHANGED <<tables, today, requests>>
        /\ UNCHANGED calcVars

\* every route that asks for a session, requests one after the other
MaxAnyRoute == 3

NextAnyRoute ==
    \/ /\ AllIdle
       /\ served < MaxAnyRoute
       /\ \/ Arrive(1)
          \/ PostGoal(1)
          \/ GetInitialQuiz(1)
          \/ GetDailyQuiz(1)
          \/ PostProfile(1)
          \/ GetUser(1)
    \/ Step(1)
    \/ G_UpdateUserGoal(1)
    \/ GI_GetInitialQuizResponse(1)
    \/ GD_GetDailyQuizResponse(1)
    \/ PP_UpdateUserProfile(1)
    \/ Midnight

SpecAnyRoute == Init /\ [][NextAnyRoute]_vars

-----------------------------------------------------------------------------
(* A second submission.  The store as it is once user 2 has sent a profile  *)
(* and a first activity of the day, user 1 being registered only; requests  *)
(* are counted from there.                                                  *)

FirstProfile == [appliances |-> {}]

FirstSubmission == [showerMinutes |-> 1]

SubmittedProfile ==
    Spread(Spread(InitialQuizDefaults, Spread(FirstProfile, [userId |-> 2])),
           [id |-> 1])

SubmittedActivity ==
    Spread(Spread(DailyQuizDefaults, Spread(FirstSubmission, [userId |-> 2])),
           [id |-> 1, date |-> 1])

SubmittedBreakdown ==
    Spread(Spread(WaterConsumptionDefaults,
                  Spread(calculateDailyWaterConsumption(SubmittedActivity,
                                                        SubmittedProfile),
                         [userId |-> 2])),
           [id |-> 1, date |-> 1])

InitResubmit ==
    /\ initialResponse = NoFields
    /\ dailyResponse = NoFields
    /\ called = "none"
    /\ returned = NoBreakdown
    /\ users = [u \in Users |->
                   IF u = 2 THEN [UserDefaults EXCEPT !.initialQuizCompleted = TRUE]
                   ELSE UserDefaults]
    /\ initialQuizResponses = << SubmittedProfile >>
    /\ dailyQuizResponses = << SubmittedActivity >>
    /\ waterConsumption = << SubmittedBreakdown >>
    /\ today = 1
    /\ requests = [s \in Slots |-> IdleRequest]
    /\ lastResponse = [route |-> "POST /api/daily-quiz", userId |-> 2, day |-> 1,
                       status |-> 201]
    /\ served = 0

SpecResubmit == InitResubmit /\ [][Next]_vars

-----------------------------------------------------------------------------
(* Properties of the estimators, checked under SpecCalc *)

\* the categories and total of the call recorded in the state, before the
\* non-negativity correction and before rounding
SummedOfCall ==
    IF called = "daily"
    THEN DailyTotal(DailyDeltas(dailyResponse, initialResponse))
    ELSE RecomputeTotal(InitialCategories(initialResponse))

\* C1: for every profile and activity in the validated ranges, the
\* totalGallons returned by either estimator is >= 0.
C1_TotalNonNegative ==
    called # "none" => returned.totalGallons >= 0

C1_Witness ==
    /\ called = "daily"
    /\ SummedOfCall.totalGallons < 0
    /\ returned.totalGallons = 0

\* C2: in every returned (rounded) breakdown, totalGallons equals the sum of
\* the eleven returned categories.
C2_TotalIsSumOfReturned ==
    called # "none" => returned.totalGallons = SumOfCategories(returned)

\* C3: when the category sum is negative, the returned total is 0, other is
\* raised by exactly the absolute value of the sum (then rounded) and no
\* other category is changed by the correction; in both estimators.
C3_DeficitMovedIntoOther ==
    (called # "none" /\ SummedOfCall.totalGallons < 0) =>
        /\ returned.totalGallons = 0
        /\ returned.otherGallons =
              MathRound(SummedOfCall.otherGallons + (0 - SummedOfCall.totalGallons))
        /\ \A c \in Categories \ {"otherGallons"} :
              returned[c] = MathRound(SummedOfCall[c])

C3_Witness ==
    /\ called = "daily"
    /\ Num(dailyResponse, "milesDriven") # 0
    /\ SummedOfCall.totalGallons < 0
    /\ returned.otherGallons > 0

\* C4: each of the twelve returned values is the whole number of gallons
\* nearest to the value held after the non-negativity correction (a tie
\* going up).
C4_RoundedAfterCorrection ==
    called # "none" =>
        LET corrected == NonNegativeCorrection(SummedOfCall)
        IN  \A f \in BreakdownFields :
                /\ 2 * (Gallons(returned[f]) - corrected[f]) <= Unit
                /\ 2 * (corrected[f] - Gallons(returned[f])) < Unit

C4_Witness ==
    /\ called = "initial"
    /\ SummedOfCall.totalGallons < 0
    /\ NonNegativeCorrection(SummedOfCall).otherGallons % Unit # 0
    /\ returned.otherGallons > 0

\* C5: the Daily Adjuster returns the same breakdown for any two activities
\* that differ only in rainwaterCollected, recycledPlastic and
\* recycledBottlesCans, the profile being the same: every activity gets the
\* breakdown of the activity that agrees with it elsewhere and logs no credit.
WithoutCredits(d) == Spread(d, [f \in CreditFields |-> 0])

C5_CreditsHaveNoEffect ==
    called = "daily" =>
        /\ WithoutCredits(dailyResponse) \in Activities
        /\ returned = calculateDailyWaterConsumption(WithoutCredits(dailyResponse),
                                                     initialResponse)

C5_Witness ==
    /\ called = "daily"
    /\ \A f \in CreditFields : Num(dailyResponse, f) # 0
    /\ Num(dailyResponse, "showerMinutes") # 0
    /\ returned.totalGallons > 0
    /\ returned.totalGallons = calculateInitialWaterConsumption(initialResponse).totalGallons + 3

\* what the stated policy puts in place of an absent field: 0 for a number,
\* false for a boolean, "none" for an enum, no tag for the appliances
ProfileAbsentAs ==
    [appliances |-> {}, greywater |-> FALSE, bathsPerMonth |-> 0,
     dishwasherType |-> "none", dishwasherFrequency |-> 0,
     laundryType |-> "none", laundryFrequency |-> 0,
     hasGarden |-> FALSE, gardenArea |-> 0, gardenFrequency |-> 0,
     hasPool |-> FALSE, carWashMethod |-> "none", carWashFrequency |-> 0,
     utilityPercentage |-> 0, shoppingHabits |-> "none"]

ActivityAbsentAs == [f \in DailyFields |-> 0]

\* C13: either estimator, given a profile or activity with fields absent,
\* returns what it returns with every absent number set to 0, boolean to
\* false, enum to "none" and appliance set to empty; a profile with every
\* field absent gives an all-zero breakdown.
C13_AbsentFieldsAsDefaults ==
    /\ called = "initial" =>
          returned = calculateInitialWaterConsumption(
                        Spread(ProfileAbsentAs, initialResponse))
    /\ called = "daily" =>
          returned = calculateDailyWaterConsumption(
                        Spread(ActivityAbsentAs, dailyResponse),
                        Spread(ProfileAbsentAs, initialResponse))
    /\ (called = "initial" /\ initialResponse = NoFields) => returned = NoBreakdown

C13_Witness ==
    /\ called = "daily"
    /\ ~Has(initialResponse, "appliances")
    /\ ~Has(initialResponse, "shoppingHabits")
    /\ Has(initialResponse, "carWashMethod")
    /\ ~Has(dailyResponse, "showerMinutes")
    /\ returned.toiletGallons > 0
    /\ returned.carWashGallons > 0

-----------------------------------------------------------------------------
(* Properties of the stored records, checked under Spec and SpecConcurrent *)

\* the twelve values of a stored breakdown
Breakdown(row) == [f \in BreakdownFields |-> row[f]]

\* the last request to finish was a successful one on the given routes
Completed(routes) ==
    /\ AllIdle
    /\ lastResponse.route \in routes
    /\ lastResponse.status \in {200, 201}

\* C6: with requests one after the other, once a daily-quiz submission (POST
\* or PATCH) of a user with a profile has succeeded, that user's activity for
\* the day is stored and the stored breakdown of that user and day is the
\* Daily Adjuster's result for the stored activity and the stored profile.
C6_DailySubmissionStoresAdjusted ==
    LET u == lastResponse.userId
        day == lastResponse.day
    IN  (/\ Completed({"POST /api/daily-quiz", "PATCH /api/daily-quiz"})
         /\ getInitialQuizResponse(u) # {})
        => /\ getDailyQuizResponse(u, day) # {}
           /\ getWaterConsumption(u, day) # {}
           /\ \A w \in getWaterConsumption(u, day), d \in getDailyQuizResponse(u, day),
                 p \in getInitialQuizResponse(u) :
                 Breakdown(w) = calculateDailyWaterConsumption(d, p)

\* C7: once a POST /api/initial-quiz has succeeded, the stored breakdown of
\* that user and day is the Daily Adjuster's result for the day's stored
\* activity and the new profile when an activity of that day exists, and the
\* Baseline Estimator's result for the new profile otherwise.
C7_ProfileSubmissionStoresEstimate ==
    LET u == lastResponse.userId
        day == lastResponse.day
    IN  Completed({"POST /api/initial-quiz"})
        => /\ getWaterConsumption(u, day) # {}
           /\ \A w \in getWaterConsumption(u, day), p \in getInitialQuizResponse(u) :
                 IF getDailyQuizResponse(u, day) # {}
                 THEN \A d \in getDailyQuizResponse(u, day) :
                         Breakdown(w) = calculateDailyWaterConsumption(d, p)
                 ELSE Breakdown(w) = calculateInitialWaterConsumption(p)

Days == 1..MaxDay

\* C8: in every reachable state, requests in flight included, there is at
\* most one stored breakdown per user and calendar day.
C8_OneBreakdownPerUserDay ==
    \A u \in Users, day \in Days : Cardinality(getWaterConsumption(u, day)) <= 1

\* C9: in every reachable state, requests in flight included, there is at
\* most one stored daily activity per user and calendar day.
C9_OneActivityPerUserDay ==
    \A u \in Users, day \in Days : Cardinality(getDailyQuizResponse(u, day)) <= 1

\* C10: once all overlapping daily-quiz submissions and retakes of a user have
\* completed, the stored breakdown of the day is the Daily Adjuster's result
\* for the activity and the profile that are finally stored.  States with a
\* duplicated row (C8, C9) are left aside: with one profile, one activity and
\* one breakdown the comparison has a single reading.
C10_NoLostUpdate ==
    AllIdle
    => \A u \in Users :
          (/\ Cardinality(getInitialQuizResponse(u)) = 1
           /\ Cardinality(getDailyQuizResponse(u, today)) = 1
           /\ Cardinality(getWaterConsumption(u, today)) = 1)
          => \A w \in getWaterConsumption(u, today),
                d \in getDailyQuizResponse(u, today),
                p \in getInitialQuizResponse(u) :
                Breakdown(w) = calculateDailyWaterConsumption(d, p)

\* C11: in every reachable state, requests in flight included, a user has at
\* most one stored profile: a retake overwrites the row in place and two
\* overlapping first submissions do not both insert.
C11_OneProfilePerUser ==
    \A u \in Users : Cardinality(getInitialQuizResponse(u)) <= 1

\* the goals the stated rule lets through: a number from 800 to 2000
GoalInRange(goal) ==
    /\ goal.type = "number"
    /\ goal.tenths >= Whole(800)
    /\ goal.tenths <= Whole(2000)

GoalRejected ==
    /\ lastResponse.route = "POST /api/goal"
    /\ lastResponse.status = 400

\* C12: an authenticated POST /api/goal whose goal is not a number from 800
\* to 2000 is answered 400; a request answered 400 leaves the users table as
\* it was; and every stored waterGoal is the default 1400 or lies in
\* 800..2000, which the second handler (any non-negative number) would not
\* guarantee.
C12_GoalValidated ==
    /\ [](\A u \in Users :
            \/ users[u].waterGoal = UserDefaults.waterGoal
            \/ users[u].waterGoal \in 800..2000)
    /\ []((/\ lastResponse.route = "POST /api/goal"
           /\ lastResponse.status # 401
           /\ ~GoalInRange(lastResponse.goal)) => lastResponse.status = 400)
    /\ [][(served' # served /\ GoalRejected') => users' = users]_vars

C12_Witness ==
    /\ GoalRejected
    /\ lastResponse.goal = JsonNumber(Whole(0))
    /\ users[lastResponse.userId].waterGoal = 2000

\* a step changes a table only by rewriting rows dated today or by appending
\* one row dated today
OtherDaysKept(table, tableAfter) ==
    /\ Len(tableAfter) \in {Len(table), Len(table) + 1}
    /\ \A i \in DOMAIN table : table[i].date # today => tableAfter[i] = table[i]
    /\ \A i \in DOMAIN tableAfter : i \notin DOMAIN table => tableAfter[i].date = today

\* C14: no step of a request running on day d changes or removes a stored
\* activity or breakdown of another day, and a successful POST /api/daily-quiz
\* leaves an activity dated that day (a new day gets a fresh row).
C14_OtherDaysUntouched ==
    /\ [][/\ OtherDaysKept(dailyQuizResponses, dailyQuizResponses')
          /\ OtherDaysKept(waterConsumption, waterConsumption')]_vars
    /\ [](Completed({"POST /api/daily-quiz"})
           => getDailyQuizResponse(lastResponse.userId, lastResponse.day) # {})

C14_Witness ==
    /\ today = 2
    /\ Completed({"POST /api/daily-quiz"})
    /\ lastResponse.status = 200
    /\ \E d1 \in getDailyQuizResponse(lastResponse.userId, 1),
          d2 \in getDailyQuizResponse(lastResponse.userId, 2) :
          /\ d1.showerMinutes # d2.showerMinutes
          /\ d2.toiletFlushes = 1
    /\ \E w1 \in getWaterConsumption(lastResponse.userId, 1),
          w2 \in getWaterConsumption(lastResponse.userId, 2) :
          w1.totalGallons # w2.totalGallons

-----------------------------------------------------------------------------
(* Properties of the single categories of the estimators *)

\* Math.round of the quotient num / den, den > 0, halves rounded up
RoundedQuotient(num, den) == (2 * num + den) \div (2 * den)

\* the profile of a household that owns and uses nothing but the shops
ShopsOnly(response) ==
    /\ AppliancesOf(response) = {}
    /\ Num(response, "bathsPerMonth") = 0
    /\ Str(response, "dishwasherType") = "none"
    /\ Str(response, "laundryType") = "none"
    /\ Str(response, "carWashMethod") = "none"
    /\ ~Flag(response, "hasGarden")
    /\ ~Flag(response, "hasPool")
    /\ Num(response, "utilityPercentage") = 0

ShoppingClassGallons ==
    [c \in {"basics", "moderate", "addict"} |->
        IF c = "basics" THEN 291 ELSE IF c = "moderate" THEN 583 ELSE 1000]

\* C15: for a profile with no tags, no baths, no dishwasher, laundry, car wash,
\* garden or pool and utilityPercentage 0, the baseline has shoppingGallons =
\* totalGallons = 291 / 583 / 1000 for basics / moderate / addict and every
\* other category 0.
C15_ShoppingOnlyBaseline ==
    (/\ called = "initial"
     /\ ShopsOnly(initialResponse)
     /\ Str(initialResponse, "shoppingHabits") \in DOMAIN ShoppingClassGallons)
    => /\ returned.shoppingGallons
            = ShoppingClassGallons[initialResponse["shoppingHabits"]]
       /\ returned.totalGallons = returned.shoppingGallons
       /\ \A f \in Categories \ {"shoppingGallons"} : returned[f] = 0

C15_Witness ==
    /\ called = "initial"
    /\ ShopsOnly(initialResponse)
    /\ Str(initialResponse, "shoppingHabits") = "addict"
    /\ returned.totalGallons = 1000

\* C16: the baseline's poolGallons is 65 with a pool and 0 without, its
\* energyGallons is round(0.34 * utilityPercentage), neither divided by 30; the
\* shops-only basics profile with a pool has pool 65 and total 356.
C16_PoolAndEnergyFlat ==
    called = "initial"
    => /\ returned.poolGallons = (IF Flag(initialResponse, "hasPool") THEN 65 ELSE 0)
       /\ returned.energyGallons
            = RoundedQuotient(34 * Num(initialResponse, "utilityPercentage"), 100)
       /\ (/\ Flag(initialResponse, "hasPool")
           /\ ShopsOnly(Spread(initialResponse, [hasPool |-> FALSE]))
           /\ Str(initialResponse, "shoppingHabits") = "basics")
          => returned.totalGallons = 356

C16_Witness ==
    /\ called = "initial"
    /\ Flag(initialResponse, "hasPool")
    /\ ShopsOnly(Spread(initialResponse, [hasPool |-> FALSE]))
    /\ Str(initialResponse, "shoppingHabits") = "basics"
    /\ returned.poolGallons = 65
    /\ returned.totalGallons = 356

\* C17: the baseline's showerGallons is round(-63 with the showerhead tag +
\* 80 * bathsPerMonth / 30); with the tag and 30 baths a month it is 17.
C17_ShowerBaseline ==
    called = "initial"
    => /\ returned.showerGallons
            = RoundedQuotient(
                (IF "showerhead" \in AppliancesOf(initialResponse) THEN -63 * 30 ELSE 0)
                + 80 * Num(initialResponse, "bathsPerMonth"), 30)
       /\ (/\ "showerhead" \in AppliancesOf(initialResponse)
           /\ Num(initialResponse, "bathsPerMonth") = 30)
          => returned.showerGallons = 17

C17_Witness ==
    /\ called = "initial"
    /\ "showerhead" \in AppliancesOf(initialResponse)
    /\ Num(initialResponse, "bathsPerMonth") = 30
    /\ returned.showerGallons = 17

\* C18: the daily estimate's showerGallons is the baseline's showerGallons plus
\* 1.8 * showerMinutes with the showerhead tag, 2.5 * showerMinutes without,
\* then rounded; toiletGallons likewise with 1.6 / 3.5 * toiletFlushes and the
\* toilet tag; ten minutes without the tag are 25 gallons over the baseline.
C18_ShowerAndToiletDeltas ==
    called = "daily"
    => LET base == calculateInitialWaterConsumption(initialResponse)
           minutes == Num(dailyResponse, "showerMinutes")
           flushes == Num(dailyResponse, "toiletFlushes")
       IN  /\ returned.showerGallons
                = RoundedQuotient(
                    10 * base.showerGallons
                    + (IF "showerhead" \in AppliancesOf(initialResponse)
                       THEN 18 ELSE 25) * minutes, 10)
           /\ returned.toiletGallons
                = RoundedQuotient(
                    10 * base.toiletGallons
                    + (IF "toilet" \in AppliancesOf(initialResponse)
                       THEN 16 ELSE 35) * flushes, 10)
           /\ (minutes = 10 /\ "showerhead" \notin AppliancesOf(initialResponse))
              => returned.showerGallons = base.showerGallons + 25

C18_Witness ==
    /\ called = "daily"
    /\ Num(dailyResponse, "showerMinutes") = 10
    /\ AppliancesOf(initialResponse) = {"toilet"}
    /\ Num(initialResponse, "bathsPerMonth") = 1
    /\ returned.showerGallons = 28

\* C19: the baseline's dishwasher, laundry and car-wash categories are
\* round(k * frequency / 30) with k = 4 / 10, 14 / 20 and 100 / 35 / 17 by class
\* or method, and 0 for any other class or method whatever the frequency.
MonthlyFactor ==
    [dishwasherType |-> [yes_efficient |-> 4, yes_not_efficient |-> 10],
     laundryType |-> [yes_efficient |-> 14, yes_not_efficient |-> 20],
     carWashMethod |-> [garden_hose |-> 100, drive_through |-> 35,
                        self_service |-> 17]]

MonthlyCategory(response, class, frequency) ==
    IF Str(response, class) \in DOMAIN MonthlyFactor[class]
    THEN RoundedQuotient(
            MonthlyFactor[class][response[class]] * Num(response, frequency), 30)
    ELSE 0

C19_MonthlyCategories ==
    called = "initial"
    => /\ returned.dishwasherGallons
            = MonthlyCategory(initialResponse, "dishwasherType", "dishwasherFrequency")
       /\ returned.laundryGallons
            = MonthlyCategory(initialResponse, "laundryType", "laundryFrequency")
       /\ returned.carWashGallons
            = MonthlyCategory(initialResponse, "carWashMethod", "carWashFrequency")

C19_Witness ==
    /\ called = "initial"
    /\ Str(initialResponse, "carWashMethod") = "none"
    /\ Num(initialResponse, "carWashFrequency") = 3
    /\ returned.carWashGallons = 0

\* C20: the baseline's gardenGallons is round(0.623 * gardenArea *
\* gardenFrequency / 30) when hasGarden holds and both are non-zero, and 0
\* otherwise, also when area and frequency are set without hasGarden.
C20_GardenBaseline ==
    called = "initial"
    => returned.gardenGallons
        = (IF Flag(initialResponse, "hasGarden")
           THEN RoundedQuotient(623 * Num(initialResponse, "gardenArea")
                                    * Num(initialResponse, "gardenFrequency"),
                                30 * 1000)
           ELSE 0)

C20_Witness ==
    /\ called = "initial"
    /\ ~Flag(initialResponse, "hasGarden")
    /\ Num(initialResponse, "gardenArea") = 100
    /\ Num(initialResponse, "gardenFrequency") = 1
    /\ returned.gardenGallons = 0

\* C21: every baseline has toiletGallons = 0 and kitchenGallons = 0, and
\* otherGallons = 0 unless the sum of its categories was negative.
C21_BaselineToiletKitchenOther ==
    called = "initial"
    => /\ returned.toiletGallons = 0
       /\ returned.kitchenGallons = 0
       /\ SummedOfCall.totalGallons >= 0 => returned.otherGallons = 0

C21_Witness ==
    /\ called = "initial"
    /\ SummedOfCall.totalGallons > 0
    /\ returned.showerGallons < 0
    /\ returned.otherGallons = 0
    /\ returned.toiletGallons = 0
    /\ returned.kitchenGallons = 0

\* the activity with nothing logged at either sink
WithoutSinks(d) ==
    Spread(d, [f \in {"bathroomSinkMinutes", "kitchenSinkMinutes"} |-> 0])

\* C22: the daily estimate's kitchenGallons is the baseline's plus 1.5 or 2.2
\* gallons per bathroom-sink minute by the bathroom_sink tag plus 1.5 or 2.2
\* per kitchen-sink minute by the kitchen_sink tag, rounded; every other
\* category is as for the same activity without sink minutes (otherGallons
\* too, unless it holds the deficit of a negative sum).
C22_SinksIntoKitchen ==
    called = "daily"
    => LET base == calculateInitialWaterConsumption(initialResponse)
           dry == calculateDailyWaterConsumption(WithoutSinks(dailyResponse),
                                                 initialResponse)
       IN  /\ returned.kitchenGallons
                = RoundedQuotient(
                    10 * base.kitchenGallons
                    + (IF "bathroom_sink" \in AppliancesOf(initialResponse)
                       THEN 15 ELSE 22) * Num(dailyResponse, "bathroomSinkMinutes")
                    + (IF "kitchen_sink" \in AppliancesOf(initialResponse)
                       THEN 15 ELSE 22) * Num(dailyResponse, "kitchenSinkMinutes"),
                    10)
           /\ \A f \in Categories \ {"kitchenGallons", "otherGallons"} :
                returned[f] = dry[f]
           /\ DailyTotal(DailyDeltas(WithoutSinks(dailyResponse),
                                     initialResponse)).totalGallons >= 0
              => returned.otherGallons = dry.otherGallons

C22_Witness ==
    /\ called = "daily"
    /\ Num(dailyResponse, "bathroomSinkMinutes") = 1
    /\ Num(dailyResponse, "kitchenSinkMinutes") = 1
    /\ "kitchen_sink" \in AppliancesOf(initialResponse)
    /\ "bathroom_sink" \notin AppliancesOf(initialResponse)
    /\ returned.kitchenGallons = 4

\* C23: when neither the baseline's sum nor the day's sum is negative, the
\* daily estimate's otherGallons is round(0.165 * milesDriven + 0.04 *
\* recycledPaper + 0.085 * veggiesConsumed + 2 * meatConsumed + 0.7 *
\* petFoodUsed), whatever the other activity fields are.
C23_OtherFromFiveFields ==
    (/\ called = "daily"
     /\ RecomputeTotal(InitialCategories(initialResponse)).totalGallons >= 0
     /\ SummedOfCall.totalGallons >= 0)
    => returned.otherGallons
        = RoundedQuotient(165 * Num(dailyResponse, "milesDriven")
                          + 40 * Num(dailyResponse, "recycledPaper")
                          + 85 * Num(dailyResponse, "veggiesConsumed")
                          + 2000 * Num(dailyResponse, "meatConsumed")
                          + 700 * Num(dailyResponse, "petFoodUsed"), 1000)

C23_Witness ==
    /\ called = "daily"
    /\ RecomputeTotal(InitialCategories(initialResponse)).totalGallons >= 0
    /\ "showerhead" \in AppliancesOf(initialResponse)
    /\ Num(dailyResponse, "veggiesConsumed") = 30
    /\ Num(dailyResponse, "rainwaterCollected") = 5
    /\ returned.otherGallons = 15

\* the categories no activity field is added to
UncoveredCategories ==
    {"dishwasherGallons", "laundryGallons", "gardenGallons", "poolGallons",
     "carWashGallons", "energyGallons", "shoppingGallons"}

\* C24: for every profile and activity the daily estimate returns the
\* dishwasher, laundry, garden, pool, car-wash, energy and shopping gallons
\* the baseline returns for the profile.
C24_UncoveredCategoriesAtBaseline ==
    called = "daily"
    => \A f \in UncoveredCategories :
        returned[f] = calculateInitialWaterConsumption(initialResponse)[f]

C24_Witness ==
    /\ called = "daily"
    /\ Num(dailyResponse, "petFoodUsed") = 4
    /\ returned.poolGallons = 65
    /\ returned.energyGallons = 9
    /\ returned.shoppingGallons = 583
    /\ returned.gardenGallons = 2

\* C26: for every profile, the daily estimate of an activity whose fields are
\* all 0 or absent is the baseline of the profile, the total included.
C26_EmptyDayIsBaseline ==
    (/\ called = "daily"
     /\ \A f \in DOMAIN dailyResponse : dailyResponse[f] = 0)
    => returned = calculateInitialWaterConsumption(initialResponse)

\* the profile with one more low-flow tag
WithTag(response, tag) ==
    Spread(response, [appliances |-> AppliancesOf(response) \cup {tag}])

\* the total the estimator that was called returns for another profile
TotalFor(response) ==
    IF called = "daily"
    THEN calculateDailyWaterConsumption(dailyResponse, response).totalGallons
    ELSE calculateInitialWaterConsumption(response).totalGallons

\* C29: with one more low-flow tag in the profile, everything else and the
\* activity being the same, neither estimator returns a larger totalGallons.
C29_LowFlowNeverCostsMore ==
    called # "none"
    => \A tag \in Tags \ AppliancesOf(initialResponse) :
        TotalFor(WithTag(initialResponse, tag)) <= returned.totalGallons

C29_Witness ==
    /\ called = "daily"
    /\ Num(dailyResponse, "toiletFlushes") = 3
    /\ "toilet" \notin AppliancesOf(initialResponse)
    /\ returned.totalGallons > 0
    /\ TotalFor(WithTag(initialResponse, "toilet")) < returned.totalGallons

-----------------------------------------------------------------------------
(* Properties of the requests, checked under Spec *)

\* C27: a POST /api/daily-quiz of a user without a profile is answered 400 and
\* leaves the activities and breakdowns as they are; so, with requests one
\* after the other, every stored activity belongs to a user with a profile.
C27_NoActivityWithoutProfile ==
    /\ [][(/\ At(1, "POST /api/daily-quiz", "getInitialQuizResponse")
           /\ getInitialQuizResponse(requests[1].userId) = {})
          => /\ lastResponse'.status = 400
             /\ dailyQuizResponses' = dailyQuizResponses
             /\ waterConsumption' = waterConsumption]_vars
    /\ [](\A d \in Rows(dailyQuizResponses) : getInitialQuizResponse(d.userId) # {})

\* C30: a PATCH /api/daily-quiz of user U changes no activity's userId, id or
\* date, and changes no activity of another user.
C30_PatchKeepsOwnership ==
    [][requests[1].route = "PATCH /api/daily-quiz"
       => /\ Len(dailyQuizResponses') = Len(dailyQuizResponses)
          /\ \A i \in DOMAIN dailyQuizResponses :
                /\ dailyQuizResponses'[i].userId = dailyQuizResponses[i].userId
                /\ dailyQuizResponses'[i].id = dailyQuizResponses[i].id
                /\ dailyQuizResponses'[i].date = dailyQuizResponses[i].date
                /\ dailyQuizResponses[i].userId # requests[1].userId
                   => dailyQuizResponses'[i] = dailyQuizResponses[i]]_vars

\* the store SpecResubmit starts from is one that requests reach
AfterFirstSubmission ==
    /\ AllIdle
    /\ served = 2
    /\ users[2].initialQuizCompleted /\ ~users[1].initialQuizCompleted
    /\ initialQuizResponses = << SubmittedProfile >>
    /\ dailyQuizResponses = << SubmittedActivity >>
    /\ waterConsumption = << SubmittedBreakdown >>
    /\ today = 1
    /\ lastResponse = [route |-> "POST /api/daily-quiz", userId |-> 2, day |-> 1,
                       status |-> 201]

\* the breakdowns stored for user 2 and day 1 in a consumption table
BreakdownsOfFirstDay(table) ==
    { Breakdown(w) : w \in { r \in Rows(table) : r.userId = 2 /\ r.date = 1 } }

\* C25: user 2 has submitted an activity on day 1; when the same activity is
\* submitted again that day, the profile and the stored breakdown being what
\* they were after the first submission, the stored breakdown stays what it
\* was.
C25_ResubmissionKeepsBreakdown ==
    [][(/\ At(1, "POST /api/daily-quiz", "saveWaterConsumption")
        /\ requests[1].userId = 2
        /\ requests[1].body = FirstSubmission
        /\ today = 1
        /\ getInitialQuizResponse(2) = {SubmittedProfile}
        /\ BreakdownsOfFirstDay(waterConsumption) = {Breakdown(SubmittedBreakdown)})
       => BreakdownsOfFirstDay(waterConsumption') = {Breakdown(SubmittedBreakdown)}]_vars

\* C28: a request without a session to any of the routes is answered 401,
\* no handler runs on for it, and no user, profile, activity or breakdown
\* changes.
C28_NoSessionNoEffect ==
    /\ [](\A s \in Slots : requests[s].pc # "idle" => requests[s].userId \in Users)
    /\ [][(lastResponse' # lastResponse
           /\ (lastResponse'.userId = 0 \/ lastResponse'.status = 401))
          => /\ lastResponse'.userId = 0
             /\ lastResponse'.status = 401
             /\ requests' = requests
             /\ users' = users
             /\ initialQuizResponses' = initialQuizResponses
             /\ dailyQuizResponses' = dailyQuizResponses
             /\ waterConsumption' = waterConsumption]_vars

C28_Witness ==
    /\ lastResponse.status = 401
    /\ lastResponse.route = "POST /api/profile"
    /\ dailyQuizResponses # << >>
    /\ waterConsumption # << >>

=============================================================================
